---- MODULE Spec2Model ----
(***************************************************************************)
(* Model of the bookstore import pipeline.                                 *)
(*                                                                         *)
(*   src/generate_fake_books.py  the data generator: builds NUM_BOOKS      *)
(*                               book dicts and writes header + rows       *)
(*   src/auto-import-books.py    the batch importer: source check, CSV     *)
(*                               load, authentication, run loop, finally   *)
(*                                                                         *)
(* A text is a sequence of tokens; a token is one character or one         *)
(* complete HTML character reference.  A CSV file is the sequence of its   *)
(* lines, each line the sequence of its fields as csv.reader yields them.  *)
(* The synthetic price (a function of the isbn alone, lines 87-88) is not  *)
(* carried in the records.                                                 *)
(***************************************************************************)
EXTENDS Integers, Sequences, FiniteSets, TLC

VARIABLES
    \* environment / configuration (os.getenv, the file system)
    file_exists, csv_rows, API_KEY, WP_USER, WP_PASS,
    ITEMS_PER_BATCH, BATCH_INTERVAL, MAX_BATCHES,
    \* generator
    gen_pc, NUM_BOOKS, books,
    \* importer
    pc, shutdown_requested, row_i, all_books, skipped, auth_mode,
    stats, current, batch, w, resp, escaped, exit_code,
    \* observable output and the endpoint's view
    stats_printed, waits, posts, sent_auth,
    \* history
    tallied, sig_at

vars == <<file_exists, csv_rows, API_KEY, WP_USER, WP_PASS,
          ITEMS_PER_BATCH, BATCH_INTERVAL, MAX_BATCHES,
          gen_pc, NUM_BOOKS, books,
          pc, shutdown_requested, row_i, all_books, skipped, auth_mode,
          stats, current, batch, w, resp, escaped, exit_code,
          stats_printed, waits, posts, sent_auth, tallied, sig_at>>

env_vars == <<API_KEY, WP_USER, WP_PASS, ITEMS_PER_BATCH, BATCH_INTERVAL, MAX_BATCHES>>
gen_vars == <<gen_pc, NUM_BOOKS, books>>

----------------------------------------------------------------------------
(* Bounds *)

MaxRecords == 2        \* rows of the input file in the run-loop specification
MaxBatchSize == 3      \* largest ITEMS_PER_BATCH explored
MaxInterval == 2       \* largest BATCH_INTERVAL explored
MaxCeiling == 2        \* largest MAX_BATCHES explored in the run-loop specification
MaxIter == 3           \* iterations explored when MAX_BATCHES = 0 (unlimited)
MaxResponseItems == 1  \* per-item outcomes in one response
MaxLoadRows == 2       \* rows of the input file in the loading specification
MaxStartRows == 2      \* rows of the input file in the startup specification

----------------------------------------------------------------------------
(* Text helpers *)

Whitespace == {" "}
DecimalChars == {"0", "1", "2", "3", "4", "5", "6", "7", "8", "9"}
\* str.isdigit() also accepts digits that int() rejects, e.g. a superscript two
DigitChars == DecimalChars \cup {"sup2"}

RECURSIVE LStrip(_)
LStrip(s) == IF s = <<>> THEN s
             ELSE IF Head(s) \in Whitespace THEN LStrip(Tail(s)) ELSE s

RECURSIVE RStrip(_)
RStrip(s) == IF s = <<>> THEN s
             ELSE IF s[Len(s)] \in Whitespace THEN RStrip(SubSeq(s, 1, Len(s) - 1)) ELSE s

Strip(s) == RStrip(LStrip(s))

IsDigit(s) == s # <<>> /\ \A i \in 1..Len(s) : s[i] \in DigitChars

DecVal(c) == CASE c = "0" -> 0 [] c = "1" -> 1 [] c = "2" -> 2 [] c = "3" -> 3
               [] c = "4" -> 4 [] c = "5" -> 5 [] c = "6" -> 6 [] c = "7" -> 7
               [] c = "8" -> 8 [] c = "9" -> 9

RECURSIVE DecFold(_, _)
DecFold(s, acc) == IF s = <<>> THEN acc ELSE DecFold(Tail(s), 10 * acc + DecVal(Head(s)))

\* int(s): a value, or ValueError (ok = FALSE)
IntOf(s) == IF s # <<>> /\ \A i \in 1..Len(s) : s[i] \in DecimalChars
            THEN [ok |-> TRUE, val |-> DecFold(s, 0)]
            ELSE [ok |-> FALSE, val |-> 0]

DecChar(d) == CASE d = 0 -> "0" [] d = 1 -> "1" [] d = 2 -> "2" [] d = 3 -> "3"
                [] d = 4 -> "4" [] d = 5 -> "5" [] d = 6 -> "6" [] d = 7 -> "7"
                [] d = 8 -> "8" [] d = 9 -> "9"

\* str(n) for n >= 0
RECURSIVE StrOf(_)
StrOf(n) == IF n < 10 THEN <<DecChar(n)>> ELSE Append(StrOf(n \div 10), DecChar(n % 10))

\* html.unescape: a named reference becomes its character, a reference to an
\* invalid code point becomes nothing, every other token is kept
RECURSIVE Unescape(_)
Unescape(s) == IF s = <<>> THEN <<>>
               ELSE (CASE Head(s) = "&amp;" -> <<"&">>
                       [] Head(s) = "&#1;" -> <<>>
                       [] OTHER -> <<Head(s)>>) \o Unescape(Tail(s))

Unknown == <<"U", "n", "k", "n", "o", "w", "n">>
UnknownPublisher == Unknown \o <<" ", "P", "u", "b", "l", "i", "s", "h", "e", "r">>

RequiredColumns == 8

----------------------------------------------------------------------------
(* Importer: one CSV row *)

\* the year as line 95 stores it: <<>> is None, <<y>> a positive integer
YearField(year) == IF year > 0 THEN <<year>> ELSE <<>>

\* variant: a row is rejected only when isbn and title are both empty
MissingRequiredBoth(isbn, title) == ~(isbn # <<>> \/ title # <<>>)

\* the missing-field test of line 82, on the stripped isbn and title
MissingRequired(isbn, title) == ~(isbn # <<>> /\ title # <<>>)

\* The body of the load loop for one row: what happens to it.
\*   kind = "incomplete"  fewer than 8 columns (continue)
\*   kind = "error"       an exception reached the except clause
\*   kind = "missing"     isbn or title empty (continue)
\*   kind = "book"        the normalized record is appended
ParseRow(row) ==
    IF Len(row) < RequiredColumns THEN [kind |-> "incomplete", book |-> <<>>]
    ELSE LET isbn == Strip(row[1])
             title == Strip(row[2])
             author == Strip(row[3])
             year_str == Strip(row[4])
             publisher == Unescape(Strip(row[5]))
             image_url == Strip(row[8])
             parsed == IntOf(year_str)
         IN IF IsDigit(year_str) /\ ~parsed.ok THEN [kind |-> "error", book |-> <<>>]
            ELSE IF MissingRequired(isbn, title) THEN [kind |-> "missing", book |-> <<>>]
            ELSE [kind |-> "book",
                  book |-> <<[isbn |-> isbn,
                              title |-> title,
                              author |-> IF author # <<>> THEN author ELSE Unknown,
                              year |-> YearField(IF IsDigit(year_str) THEN parsed.val ELSE 0),
                              publisher |-> IF publisher # <<>> THEN publisher
                                            ELSE UnknownPublisher,
                              image_url |-> image_url]>>]

----------------------------------------------------------------------------
(* Importer: authentication and the batch window *)

\* variant: basic credentials take priority over the API key
AuthModeBasicFirst(key, user, pass) ==
    IF user # "" /\ pass # "" THEN "basic"
    ELSE IF key # "" THEN "api_key"
    ELSE "none"

AuthMode(key, user, pass) ==
    IF key # "" THEN "api_key"
    ELSE IF user # "" /\ pass # "" THEN "basic"
    ELSE "none"

\* variant: a plain slice all_books[current:current+size], cut at the end
WindowSlice(recs, cur, size) ==
    [i \in 1..(IF size < Len(recs) - cur THEN size ELSE Len(recs) - cur) |-> recs[cur + i]]

Window(recs, cur, size) ==
    [i \in 1..size |-> recs[((cur + (i - 1)) % Len(recs)) + 1]]

\* variant: the read position stays where it is
AdvanceNone(cur, size, n) == cur

Advance(cur, size, n) == (cur + size) % n

----------------------------------------------------------------------------
(* Generator *)

IsbnBodyLen == 10

FIELDS == << <<"I", "S", "B", "N">>, <<"T", "i", "t", "l", "e">>,
             <<"A", "u", "t", "h", "o", "r">>, <<"Y", "e", "a", "r">>,
             <<"P", "u", "b", "l", "i", "s", "h", "e", "r">>,
             <<"U", "R", "L", "-", "S">>, <<"U", "R", "L", "-", "M">>,
             <<"U", "R", "L", "-", "L">> >>

\* random_isbn: a 13-digit prefixed form or a 10-digit form (digits sampled)
IsbnChoices == { <<"9", "7", "8">> \o [i \in 1..IsbnBodyLen |-> "1"],
                 [i \in 1..IsbnBodyLen |-> "2"] }

\* random.randint(1950, 2025), sampled at its two ends
YearOf(isbn) == IF Len(isbn) > IsbnBodyLen THEN 1950 ELSE 2025

random_image_urls(isbn) ==
    LET base == <<"P", "/">> \o isbn \o <<".", "0", "1">>
    IN << base \o <<".", "T">>, base \o <<".", "M">>, base \o <<".", "L">> >>

\* one generated book dict, its values in FIELDS order (year still an integer)
GenBook(isbn) ==
    [isbn |-> isbn,
     title |-> <<"T", "h", "e", " ", "A">>,
     author |-> <<"J", " ", "D">>,
     year |-> YearOf(isbn),
     publisher |-> <<"H", " ", "P">>,
     urls |-> random_image_urls(isbn)]

\* csv.DictWriter.writerow: every value written as its str()
DictRow(b) == <<b.isbn, b.title, b.author, StrOf(b.year), b.publisher,
                b.urls[1], b.urls[2], b.urls[3]>>

\* variant: writerows(books) without writeheader()
CsvLinesNoHeader(bs) == [i \in 1..Len(bs) |-> DictRow(bs[i])]

\* writeheader() followed by writerows(books)
CsvLines(bs) == <<FIELDS>> \o [i \in 1..Len(bs) |-> DictRow(bs[i])]

GenerateBook ==
    /\ gen_pc = "generate"
    /\ Len(books) < NUM_BOOKS
    /\ \E isbn \in IsbnChoices : books' = Append(books, GenBook(isbn))
    /\ UNCHANGED <<file_exists, csv_rows, env_vars, gen_pc, NUM_BOOKS,
                   pc, shutdown_requested, row_i, all_books, skipped, auth_mode,
                   stats, current, batch, w, resp, escaped, exit_code,
                   stats_printed, waits, posts, sent_auth, tallied, sig_at>>

WriteCsv ==
    /\ gen_pc = "generate"
    /\ Len(books) = NUM_BOOKS
    /\ file_exists' = TRUE
    /\ csv_rows' = CsvLines(books)
    /\ gen_pc' = "done"
    /\ UNCHANGED <<env_vars, NUM_BOOKS, books,
                   pc, shutdown_requested, row_i, all_books, skipped, auth_mode,
                   stats, current, batch, w, resp, escaped, exit_code,
                   stats_printed, waits, posts, sent_auth, tallied, sig_at>>

----------------------------------------------------------------------------
(* Importer: startup *)

NoResp == [kind |-> "none", status |-> 0, json |-> "invalid", items |-> <<>>, book_ok |-> TRUE]
NoSig == [pc |-> "none", sent |-> 0, w |-> 0]

\* SIGINT / SIGTERM: the handler only sets the flag
signal_handler ==
    /\ gen_pc \in {"off", "done"}
    /\ pc # "exited"
    /\ shutdown_requested' = TRUE
    \* history: the first delivery that falls into the inter-batch wait
    /\ sig_at' = IF sig_at.pc = "none" /\ pc \in {"wait", "sleep"}
                 THEN [pc |-> pc, sent |-> stats.batches_sent, w |-> w]
                 ELSE sig_at
    /\ UNCHANGED <<file_exists, csv_rows, env_vars, gen_vars,
                   pc, row_i, all_books, skipped, auth_mode,
                   stats, current, batch, w, resp, escaped, exit_code,
                   stats_printed, waits, posts, sent_auth, tallied>>

CheckSource ==
    /\ gen_pc \in {"off", "done"}
    /\ pc = "start"
    /\ IF ~file_exists
       THEN pc' = "exited" /\ exit_code' = 2
       ELSE pc' = "load" /\ UNCHANGED exit_code
    /\ UNCHANGED <<file_exists, csv_rows, env_vars, gen_vars,
                   shutdown_requested, row_i, all_books, skipped, auth_mode,
                   stats, current, batch, w, resp, escaped,
                   stats_printed, waits, posts, sent_auth, tallied, sig_at>>

\* one pass of the for loop over the reader
LoadRow ==
    /\ pc = "load"
    /\ row_i <= Len(csv_rows)
    /\ LET r == ParseRow(csv_rows[row_i])
       IN IF r.kind = "book"
          THEN all_books' = all_books \o r.book /\ UNCHANGED skipped
          ELSE skipped' = Append(skipped, [row |-> row_i, why |-> r.kind])
               /\ UNCHANGED all_books
    /\ row_i' = row_i + 1
    /\ UNCHANGED <<file_exists, csv_rows, env_vars, gen_vars,
                   pc, shutdown_requested, auth_mode,
                   stats, current, batch, w, resp, escaped, exit_code,
                   stats_printed, waits, posts, sent_auth, tallied, sig_at>>

\* reader exhausted: the empty-set exit
LoadDone ==
    /\ pc = "load"
    /\ row_i > Len(csv_rows)
    /\ IF all_books = <<>>
       THEN pc' = "exited" /\ exit_code' = 0
       ELSE pc' = "auth" /\ UNCHANGED exit_code
    /\ UNCHANGED <<file_exists, csv_rows, env_vars, gen_vars,
                   shutdown_requested, row_i, all_books, skipped, auth_mode,
                   stats, current, batch, w, resp, escaped,
                   stats_printed, waits, posts, sent_auth, tallied, sig_at>>

Authenticate ==
    /\ pc = "auth"
    /\ LET m == AuthMode(API_KEY, WP_USER, WP_PASS)
       IN IF m = "none"
          THEN pc' = "exited" /\ exit_code' = 2 /\ UNCHANGED auth_mode
          ELSE pc' = "loop" /\ auth_mode' = m /\ UNCHANGED exit_code
    /\ UNCHANGED <<file_exists, csv_rows, env_vars, gen_vars,
                   shutdown_requested, row_i, all_books, skipped,
                   stats, current, batch, w, resp, escaped,
                   stats_printed, waits, posts, sent_auth, tallied, sig_at>>

----------------------------------------------------------------------------
(* Importer: the run loop *)

StatusCodes == {200, 399, 400, 500}
ItemStatuses == {"imported", "failed", "skipped"}

ItemLists == UNION {[1..k -> ItemStatuses] : k \in 0..MaxResponseItems}

\* What requests.post can produce:
\*   kind = "exception"  a requests.RequestException (connection error, timeout)
\*   kind = "http"       a response with a status code; a body that is not JSON
\*                       (json = "invalid"), JSON that is not an object
\*                       (json = "non_dict"), or an object whose "imported" list
\*                       holds items; book_ok: the sampled "book" values can be sliced
Responses ==
    {[kind |-> "exception", status |-> 0, json |-> "invalid", items |-> <<>>, book_ok |-> TRUE]}
    \cup {[kind |-> "http", status |-> s, json |-> "invalid", items |-> <<>>, book_ok |-> TRUE]
            : s \in StatusCodes}
    \cup {[kind |-> "http", status |-> 200, json |-> "non_dict", items |-> <<>>, book_ok |-> TRUE]}
    \cup {[kind |-> "http", status |-> 200, json |-> "dict", items |-> it, book_ok |-> b]
            : it \in ItemLists, b \in BOOLEAN}

\* a mock endpoint that reports "imported" for every item it receives
MockResponse(sent) ==
    [kind |-> "http", status |-> 200, json |-> "dict",
     items |-> [i \in 1..Len(sent) |-> "imported"], book_ok |-> TRUE]

Count(items, st) == Cardinality({i \in 1..Len(items) : items[i] = st})

Failed(r) == r.kind = "exception" \/ (r.kind = "http" /\ r.status >= 400)

\* variant: no except clause, a network exception escapes post_batch
PostBatchResultUncaught(r) ==
    LET counted == [errors |-> 1, imported |-> 0, failed |-> 0, tally |-> 0, raised |-> "none"]
        escape(e) == [errors |-> 0, imported |-> 0, failed |-> 0, tally |-> 0, raised |-> e]
    IN IF r.kind = "exception" THEN {escape("RequestException")}
       ELSE IF r.status >= 400 THEN {counted}
       ELSE IF r.json = "invalid" THEN {escape("ValueError")}
       ELSE IF r.json = "non_dict" THEN {escape("AttributeError")}
       ELSE {[errors |-> 0,
              imported |-> Count(r.items, "imported"),
              failed |-> Count(r.items, "failed"),
              tally |-> 1,
              raised |-> IF r.items # <<>> /\ ~r.book_ok THEN "TypeError" ELSE "none"]}

\* variant: every listed item is tallied as imported, whatever its status
PostBatchResultCountAll(r) ==
    LET counted == [errors |-> 1, imported |-> 0, failed |-> 0, tally |-> 0, raised |-> "none"]
        escape(e) == [errors |-> 0, imported |-> 0, failed |-> 0, tally |-> 0, raised |-> e]
    IN IF r.kind = "exception" THEN {counted}
       ELSE IF r.status >= 400 THEN {counted}
       ELSE IF r.json = "invalid" THEN {counted, escape("ValueError")}
       ELSE IF r.json = "non_dict" THEN {escape("AttributeError")}
       ELSE {[errors |-> 0,
              imported |-> Len(r.items),
              failed |-> Count(r.items, "failed"),
              tally |-> 1,
              raised |-> IF r.items # <<>> /\ ~r.book_ok THEN "TypeError" ELSE "none"]}

\* post_batch after requests.post has returned or raised: the possible effects.
\*   errors, imported, failed: the increments of the counters
\*   tally: 1 when lines 158-159 ran;  raised: the exception that escapes
PostBatchResult(r) ==
    LET counted == [errors |-> 1, imported |-> 0, failed |-> 0, tally |-> 0, raised |-> "none"]
        escape(e) == [errors |-> 0, imported |-> 0, failed |-> 0, tally |-> 0, raised |-> e]
    IN IF r.kind = "exception" THEN {counted}
       ELSE IF r.status >= 400 THEN {counted}
       \* resp.json() fails: requests.JSONDecodeError is a RequestException in
       \* requests >= 2.27 and a plain ValueError before
       ELSE IF r.json = "invalid" THEN {counted, escape("ValueError")}
       ELSE IF r.json = "non_dict" THEN {escape("AttributeError")}
       ELSE {[errors |-> 0,
              imported |-> Count(r.items, "imported"),
              failed |-> Count(r.items, "failed"),
              tally |-> 1,
              raised |-> IF r.items # <<>> /\ ~r.book_ok THEN "TypeError" ELSE "none"]}

\* while not shutdown_requested
LoopCheck ==
    /\ pc = "loop"
    /\ pc' = IF shutdown_requested THEN "finally" ELSE "iter"
    /\ UNCHANGED <<file_exists, csv_rows, env_vars, gen_vars,
                   shutdown_requested, row_i, all_books, skipped, auth_mode,
                   stats, current, batch, w, resp, escaped, exit_code,
                   stats_printed, waits, posts, sent_auth, tallied, sig_at>>

\* lines 175-177: count the batch, take the window, advance the read position
BeginIteration ==
    /\ pc = "iter"
    /\ MAX_BATCHES = 0 => stats.batches_sent < MaxIter
    /\ stats' = [stats EXCEPT !.batches_sent = @ + 1]
    /\ batch' = Window(all_books, current, ITEMS_PER_BATCH)
    /\ current' = Advance(current, ITEMS_PER_BATCH, Len(all_books))
    /\ pc' = "post"
    /\ UNCHANGED <<file_exists, csv_rows, env_vars, gen_vars,
                   shutdown_requested, row_i, all_books, skipped, auth_mode,
                   w, resp, escaped, exit_code,
                   stats_printed, waits, posts, sent_auth, tallied, sig_at>>

\* requests.post(...) with the endpoint answering r
Post(r) ==
    /\ pc = "post"
    /\ resp' = r
    /\ posts' = posts + 1
    /\ sent_auth' = sent_auth \cup {auth_mode}
    /\ pc' = "respond"
    /\ UNCHANGED <<file_exists, csv_rows, env_vars, gen_vars,
                   shutdown_requested, row_i, all_books, skipped, auth_mode,
                   stats, current, batch, w, escaped, exit_code,
                   stats_printed, waits, tallied, sig_at>>

SendRequest == \E r \in Responses : Post(r)

SendRequestMock == Post(MockResponse(batch))

\* the rest of post_batch, lines 144-169
HandleResponse ==
    /\ pc = "respond"
    /\ \E o \in PostBatchResult(resp) :
         /\ stats' = [stats EXCEPT !.errors = @ + o.errors,
                                   !.items_imported = @ + o.imported,
                                   !.items_failed = @ + o.failed]
         /\ tallied' = tallied + o.tally
         /\ escaped' = o.raised
         /\ pc' = IF o.raised = "none" THEN "ceiling" ELSE "fatal"
    /\ resp' = NoResp
    /\ UNCHANGED <<file_exists, csv_rows, env_vars, gen_vars,
                   shutdown_requested, row_i, all_books, skipped, auth_mode,
                   current, batch, w, exit_code,
                   stats_printed, waits, posts, sent_auth, sig_at>>

\* variant: the ceiling test uses > instead of >=
CeilingCheckOffByOne ==
    /\ pc = "ceiling"
    /\ IF MAX_BATCHES > 0 /\ stats.batches_sent > MAX_BATCHES
       THEN pc' = "finally" /\ UNCHANGED <<w, waits>>
       ELSE pc' = "wait" /\ w' = 0 /\ waits' = waits + 1
    /\ UNCHANGED <<file_exists, csv_rows, env_vars, gen_vars,
                   shutdown_requested, row_i, all_books, skipped, auth_mode,
                   stats, current, batch, resp, escaped, exit_code,
                   stats_printed, posts, sent_auth, tallied, sig_at>>

\* lines 181-185: the ceiling test, else the wait is announced
CeilingCheck ==
    /\ pc = "ceiling"
    /\ IF MAX_BATCHES > 0 /\ stats.batches_sent >= MAX_BATCHES
       THEN pc' = "finally" /\ UNCHANGED <<w, waits>>
       ELSE pc' = "wait" /\ w' = 0 /\ waits' = waits + 1
    /\ UNCHANGED <<file_exists, csv_rows, env_vars, gen_vars,
                   shutdown_requested, row_i, all_books, skipped, auth_mode,
                   stats, current, batch, resp, escaped, exit_code,
                   stats_printed, posts, sent_auth, tallied, sig_at>>

\* variant: the wait loop does not poll the flag
WaitCheckNoPoll ==
    /\ pc = "wait"
    /\ pc' = IF w < BATCH_INTERVAL THEN "sleep" ELSE "loop"
    /\ UNCHANGED <<file_exists, csv_rows, env_vars, gen_vars,
                   shutdown_requested, row_i, all_books, skipped, auth_mode,
                   stats, current, batch, w, resp, escaped, exit_code,
                   stats_printed, waits, posts, sent_auth, tallied, sig_at>>

\* for _ in range(BATCH_INTERVAL): if shutdown_requested: break
WaitCheck ==
    /\ pc = "wait"
    /\ pc' = IF w < BATCH_INTERVAL /\ ~shutdown_requested THEN "sleep" ELSE "loop"
    /\ UNCHANGED <<file_exists, csv_rows, env_vars, gen_vars,
                   shutdown_requested, row_i, all_books, skipped, auth_mode,
                   stats, current, batch, w, resp, escaped, exit_code,
                   stats_printed, waits, posts, sent_auth, tallied, sig_at>>

\* time.sleep(1)
Sleep ==
    /\ pc = "sleep"
    /\ w' = w + 1
    /\ pc' = "wait"
    /\ UNCHANGED <<file_exists, csv_rows, env_vars, gen_vars,
                   shutdown_requested, row_i, all_books, skipped, auth_mode,
                   stats, current, batch, resp, escaped, exit_code,
                   stats_printed, waits, posts, sent_auth, tallied, sig_at>>

\* except Exception as e: print Fatal and the traceback
HandleFatal ==
    /\ pc = "fatal"
    /\ pc' = "finally"
    /\ UNCHANGED <<file_exists, csv_rows, env_vars, gen_vars,
                   shutdown_requested, row_i, all_books, skipped, auth_mode,
                   stats, current, batch, w, resp, escaped, exit_code,
                   stats_printed, waits, posts, sent_auth, tallied, sig_at>>

\* finally: print_stats(), then the script ends
Finally ==
    /\ pc = "finally"
    /\ stats_printed' = stats_printed + 1
    /\ pc' = "exited"
    /\ exit_code' = 0
    /\ UNCHANGED <<file_exists, csv_rows, env_vars, gen_vars,
                   shutdown_requested, row_i, all_books, skipped, auth_mode,
                   stats, current, batch, w, resp, escaped,
                   waits, posts, sent_auth, tallied, sig_at>>

----------------------------------------------------------------------------
(* Inputs and specifications *)

Url == << <<"s">>, <<"m">>, <<" ", "l">> >>

Row(isbn, title, author, year, publisher) ==
    <<isbn, title, author, year, publisher>> \o Url

\* the k-th row of a well-formed input file: distinct isbn and year per row
SampleRow(k) == Row(StrOf(k), <<"t">>, <<"a">>, StrOf(1990 + k), <<"p">>)

ImporterInit ==
    /\ pc = "start"
    /\ shutdown_requested = FALSE
    /\ row_i = 1
    /\ all_books = <<>>
    /\ skipped = <<>>
    /\ auth_mode = "none"
    /\ stats = [batches_sent |-> 0, items_imported |-> 0, items_failed |-> 0, errors |-> 0]
    /\ current = 0
    /\ batch = <<>>
    /\ w = 0
    /\ resp = NoResp
    /\ escaped = "none"
    /\ exit_code = -1
    /\ stats_printed = 0
    /\ waits = 0
    /\ posts = 0
    /\ sent_auth = {}
    /\ tallied = 0
    /\ sig_at = NoSig

NoGenerator ==
    /\ gen_pc = "off"
    /\ NUM_BOOKS = 0
    /\ books = <<>>

\* The run loop: well-formed files of 1..MaxRecords rows, API-key authentication
Init ==
    /\ ImporterInit
    /\ NoGenerator
    /\ file_exists = TRUE
    /\ csv_rows \in {[i \in 1..n |-> SampleRow(i)] : n \in 1..MaxRecords}
    /\ API_KEY = "k" /\ WP_USER = "" /\ WP_PASS = ""
    /\ ITEMS_PER_BATCH \in 1..MaxBatchSize
    /\ BATCH_INTERVAL \in 0..MaxInterval
    /\ MAX_BATCHES \in 0..MaxCeiling

Importer ==
    \/ CheckSource
    \/ LoadRow
    \/ LoadDone
    \/ Authenticate
    \/ LoopCheck
    \/ BeginIteration
    \/ SendRequest
    \/ HandleResponse
    \/ CeilingCheck
    \/ WaitCheck
    \/ Sleep
    \/ HandleFatal
    \/ Finally

Next == Importer \/ signal_handler

Spec == Init /\ [][Next]_vars

----------------------------------------------------------------------------
(* Loading: files over a universe of well-formed and malformed rows *)

LoadRows ==
    { <<>>,                                                   \* blank line
      SubSeq(SampleRow(1), 1, 7),                             \* seven columns
      SampleRow(1),
      SampleRow(2) \o << <<"x">> >>,                          \* nine columns
      Row(<<" ">>, <<"t">>, <<"a">>, <<"1">>, <<"p">>),       \* isbn blank
      Row(<<" ", "1", " ">>, <<>>, <<"a">>, <<"1">>, <<"p">>),\* title empty
      Row(<<"3">>, <<" ", "t">>, <<" ">>, <<>>, <<" ">>),     \* optional fields empty
      Row(<<"4">>, <<"t">>, <<"a">>, <<"0">>, <<"&amp;">>),   \* year zero
      Row(<<"5">>, <<"t">>, <<"a">>, <<"-", "1">>, <<"&#1;">>),
      Row(<<"6">>, <<"t">>, <<"a">>, <<"x">>, <<"p">>),       \* year not a number
      Row(<<"7">>, <<"t">>, <<"a">>, <<"sup2">>, <<"p">>),    \* year a non-decimal digit
      Row(<<>>, <<"t">>, <<"a">>, <<"sup2">>, <<"p">>) }

SeqsUpTo(S, n) == UNION {[1..k -> S] : k \in 0..n}

InitLoad ==
    /\ ImporterInit
    /\ NoGenerator
    /\ file_exists = TRUE
    /\ csv_rows \in SeqsUpTo(LoadRows, MaxLoadRows)
    /\ API_KEY = "k" /\ WP_USER = "" /\ WP_PASS = ""
    /\ ITEMS_PER_BATCH = 1
    /\ BATCH_INTERVAL = 1
    /\ MAX_BATCHES = 0

\* the LOADING phase, up to the point where the run loop would start
NextLoad ==
    \/ CheckSource
    \/ LoadRow
    \/ LoadDone
    \/ Authenticate
    \/ signal_handler

SpecLoad == InitLoad /\ [][NextLoad]_vars

----------------------------------------------------------------------------
(* Startup: missing file, empty record set, every credential combination *)

StartCeilings == {0, 2}

InitStart ==
    /\ ImporterInit
    /\ NoGenerator
    /\ \/ file_exists = FALSE /\ csv_rows = <<>>
       \/ file_exists = TRUE /\ csv_rows \in SeqsUpTo({SampleRow(1), <<>>}, MaxStartRows)
    /\ API_KEY \in {"", "k"}
    /\ WP_USER \in {"", "u"}
    /\ WP_PASS \in {"", "p"}
    /\ ITEMS_PER_BATCH = 1
    /\ BATCH_INTERVAL = 1
    /\ MAX_BATCHES \in StartCeilings

SpecStart == InitStart /\ [][Next]_vars

----------------------------------------------------------------------------
(* Round trip: the generator writes the file, the importer reads it and    *)
(* posts to the mock endpoint; the ceiling stops it after ceil(N/B) batches *)

NumBooksChoices == {0, 10}
RoundTripBatchSizes == (1..MaxBatchSize) \cup {10, 11, 12}

Ceil(a, b) == (a + b - 1) \div b

InitRT ==
    /\ ImporterInit
    /\ gen_pc = "generate"
    /\ NUM_BOOKS \in NumBooksChoices
    /\ books = <<>>
    /\ file_exists = FALSE
    /\ csv_rows = <<>>
    /\ API_KEY = "k" /\ WP_USER = "" /\ WP_PASS = ""
    /\ ITEMS_PER_BATCH \in RoundTripBatchSizes
    /\ BATCH_INTERVAL = 1
    /\ MAX_BATCHES = Ceil(NUM_BOOKS, ITEMS_PER_BATCH)

NextRT ==
    \/ GenerateBook
    \/ WriteCsv
    \/ CheckSource
    \/ LoadRow
    \/ LoadDone
    \/ Authenticate
    \/ LoopCheck
    \/ BeginIteration
    \/ SendRequestMock
    \/ HandleResponse
    \/ CeilingCheck
    \/ WaitCheck
    \/ Sleep
    \/ Finally

SpecRT == InitRT /\ [][NextRT]_vars

----------------------------------------------------------------------------
(* Properties *)

LoopReached == auth_mode # "none"
Boundary == pc \in {"ceiling", "wait", "sleep", "loop", "iter"}
SkippedRows == {skipped[j].row : j \in 1..Len(skipped)}
Rejectable(row) ==
    \/ Len(row) < 8
    \/ Strip(row[1]) = <<>>
    \/ Strip(row[2]) = <<>>

\* C1: the k-th batch sent holds exactly ITEMS_PER_BATCH records, and its i-th
\* element (from 0) is the record at index ((k-1)*B + i) mod n of the parsed
\* set, whether B < n, B = n or B > n.
C1_WindowFixedAndCircular ==
    stats.batches_sent >= 1 =>
        /\ Len(batch) = ITEMS_PER_BATCH
        /\ \A i \in 0..(ITEMS_PER_BATCH - 1) :
             batch[i + 1] =
               all_books[(((stats.batches_sent - 1) * ITEMS_PER_BATCH + i) % Len(all_books)) + 1]

\* a second batch that wraps inside the window (B > n)
C1_Witness ==
    /\ pc = "respond"
    /\ stats.batches_sent = 2
    /\ ITEMS_PER_BATCH > Len(all_books)
    /\ Len(all_books) = 2
    /\ batch[1] # batch[2]

C3_InterruptDuringWait ==
    sig_at.pc \in {"wait", "sleep"} =>
        /\ stats.batches_sent = sig_at.sent
        /\ posts = sig_at.sent
        /\ pc \in {"wait", "sleep", "loop", "finally", "exited"}
        /\ w <= sig_at.w + 1
        /\ (sig_at.pc = "wait" => w = sig_at.w)
        /\ stats_printed <= 1
        /\ (pc = "exited" => stats_printed = 1 /\ exit_code = 0)

\* interrupted in the middle of a sleep step, with a longer wait still ahead
C3_Witness ==
    /\ sig_at.pc = "sleep"
    /\ sig_at.w = 0
    /\ BATCH_INTERVAL >= 2
    /\ pc = "exited"
    /\ w = 1
    /\ stats_printed = 1

\* C4: a POST that ends in a status >= 400 or in a network exception is
\* counted and the loop goes on to its ceiling test (case 1); the loop is left
\* only on an interrupt, at the ceiling, or because an exception escaped (case
\* 2); and after an escaped exception the statistics are still printed (case 3).
C4_FailuresNeverTerminate ==
    /\ [][(pc = "respond" /\ pc' # "respond" /\ Failed(resp)) =>
            (/\ stats'.errors = stats.errors + 1
             /\ escaped' = "none"
             /\ pc' = "ceiling")]_vars
    /\ [](pc = "finally" =>
            \/ shutdown_requested
            \/ (MAX_BATCHES > 0 /\ stats.batches_sent >= MAX_BATCHES)
            \/ escaped # "none")
    /\ []((pc = "exited" /\ escaped # "none") => stats_printed = 1)

\* two failed POSTs behind it, the loop is posting again
C4_Witness ==
    /\ stats.errors = 2
    /\ pc = "post"
    /\ stats.batches_sent = 3

\* C5 as stated: a missing file or missing credentials always end in exit
\* code 2.
C5_Original ==
    (/\ pc = "exited"
     /\ \/ ~file_exists
        \/ (API_KEY = "" /\ (WP_USER = "" \/ WP_PASS = "")))
    => exit_code = 2 /\ posts = 0

\* C5 amended: a missing file, or missing credentials once at least one record
\* was parsed, end in exit code 2 without a POST; a file that yields no record
\* ends in exit code 0 without a POST whatever the credentials; otherwise every
\* POST carries the same authentication, the API key whenever one is set, else
\* basic credentials.
C5_StartupAndAuth ==
    /\ (/\ pc = "exited"
        /\ \/ ~file_exists
           \/ (all_books # <<>> /\ API_KEY = "" /\ (WP_USER = "" \/ WP_PASS = "")))
       => exit_code = 2 /\ posts = 0
    /\ (pc = "exited" /\ file_exists /\ all_books = <<>>)
       => exit_code = 0 /\ posts = 0
    /\ posts > 0 =>
         /\ API_KEY # "" => sent_auth = {"api_key"}
         /\ API_KEY = "" => (sent_auth = {"basic"} /\ WP_USER # "" /\ WP_PASS # "")

\* both kinds of credentials configured, several batches posted
C5_Witness ==
    /\ posts >= 2
    /\ API_KEY # ""
    /\ WP_USER # ""
    /\ WP_PASS # ""
    /\ sent_auth = {"api_key"}

\* C6: every processed row with fewer than 8 columns, or with an empty isbn or
\* title after trimming, has a skip logged and contributes no record; no row
\* aborts the load: every row is processed before the load phase is left.
C6_RowFiltering ==
    /\ \A i \in 1..(row_i - 1) : Rejectable(csv_rows[i]) => i \in SkippedRows
    /\ Len(all_books) + Len(skipped) = row_i - 1
    /\ Len(all_books) = Cardinality((1..(row_i - 1)) \ SkippedRows)
    /\ pc \notin {"start", "load"} => row_i = Len(csv_rows) + 1

\* a skipped first row, and the row after it processed and retained
C6_Witness ==
    /\ pc = "loop"
    /\ Len(csv_rows) = 2
    /\ SkippedRows = {1}
    /\ Len(all_books) = 1

\* C7: every row with at least 8 columns and non-empty isbn and title is
\* retained, whatever its author, year and publisher.
C7_OnlyIsbnAndTitleReject ==
    \A i \in 1..(row_i - 1) : ~Rejectable(csv_rows[i]) => i \notin SkippedRows

\* C8 as stated: with a ceiling M > 0 and no interrupt the loop ends after
\* exactly M batches; with M = 0 it ends only on interrupt.
C8_Original ==
    (pc = "exited" /\ LoopReached /\ ~shutdown_requested) =>
        /\ MAX_BATCHES > 0
        /\ stats.batches_sent = MAX_BATCHES
        /\ posts = MAX_BATCHES
        /\ waits = MAX_BATCHES - 1
        /\ stats_printed = 1

\* C8 amended: with a ceiling M > 0, no interrupt and no exception escaping
\* the loop, the run ends after exactly M batches and M posts, with no wait
\* after the last batch, and the statistics are printed once; a ceiling is
\* never exceeded; with M = 0 the loop is left only on an interrupt or an
\* escaped exception.
C8_Ceiling ==
    /\ (pc = "exited" /\ LoopReached /\ ~shutdown_requested /\ escaped = "none") =>
          /\ MAX_BATCHES > 0
          /\ stats.batches_sent = MAX_BATCHES
          /\ posts = MAX_BATCHES
          /\ waits = MAX_BATCHES - 1
          /\ stats_printed = 1
    /\ MAX_BATCHES > 0 => stats.batches_sent <= MAX_BATCHES
    /\ (pc \in {"finally", "exited"} /\ LoopReached /\ MAX_BATCHES = 0) =>
          (shutdown_requested \/ escaped # "none")

C8_Witness ==
    /\ pc = "exited"
    /\ ~shutdown_requested
    /\ escaped = "none"
    /\ MAX_BATCHES = 2
    /\ stats.batches_sent = 2
    /\ waits = 1

\* C9: one POST per iteration, and the read position has advanced by the batch
\* size (mod the record count) for every batch started, before its POST and
\* whatever the outcomes were: a failed batch is not sent again as a retry.
C9_NoRetry ==
    LoopReached =>
        /\ posts = IF pc = "post" THEN stats.batches_sent - 1 ELSE stats.batches_sent
        /\ current = (stats.batches_sent * ITEMS_PER_BATCH) % Len(all_books)
        /\ stats.errors <= stats.batches_sent

\* after a failed first batch, the second batch starts further on
C9_Witness ==
    /\ pc = "post"
    /\ stats.batches_sent = 2
    /\ stats.errors = 1
    /\ Len(all_books) = 2
    /\ ITEMS_PER_BATCH = 1
    /\ batch[1] = all_books[2]

====
